---- MODULE Spec2Model ----
(***************************************************************************)
(* daily-book: the two extractors (extract_calendar_of_wisdom.py,          *)
(* extract_epub.py) that build the MM-DD -> text store from an EPUB, and   *)
(* the sender (send_daily_chapter.py) that looks today's key up.           *)
(*                                                                         *)
(* Text is a TLA+ string.  Offsets are Python's: 0-based, end exclusive.   *)
(* The character set is ASCII; LongS stands for U+017F (LATIN SMALL LETTER *)
(* LONG S), which Python's re.IGNORECASE matches against "s" and which     *)
(* str.lower() leaves alone.                                               *)
(***************************************************************************)
EXTENDS Integers, Sequences, FiniteSets, TLC

VARIABLES
    prog,           \* which script runs: "calendar", "epub", "save", "send"
    pc,             \* the script's position
    items,          \* the EPUB's document units, in traversal order
    idx,            \* number of units taken from items so far
    full_text,      \* calendar: the current unit's flattened text
    matches,        \* calendar: list(re.finditer(...)) of the current unit
    i,              \* calendar: index of the next match to handle
    chapters,       \* the store: a function from date keys to text
    total_entries,  \* calendar: the counter printed at the end
    skipped,        \* epub: the skipped list
    title,          \* epub: the title of the unit handled last
    date_key,       \* the key computed last (NoKey: none)
    trace,          \* the locals of every occurrence handled so far
    audit,          \* save_chapters: whether the audit ran, its missing list
    chapter_content, \* send: what get_todays_chapter returned
    outfile,        \* the JSON written (NoFile: nothing written)
    exit_code,      \* the process's exit status (-1: still running)
    env,            \* send: the environment and the outcome of the send
    sent            \* send: the e-mails handed to send_email, in order

vars == <<prog, pc, items, idx, full_text, matches, i, chapters,
          total_entries, skipped, title, date_key, trace, audit,
          chapter_content, outfile, exit_code, env, sent>>

----------------------------------------------------------------------------
(* Characters and strings, as Python's str and re see them *)

Whitespace == {" ", "\n", "\t"}

Digits == {"0", "1", "2", "3", "4", "5", "6", "7", "8", "9"}

LongS == "$"

UpperAlpha == "ABCDEFGHIJKLMNOPQRSTUVWXYZ"

LowerAlpha == "abcdefghijklmnopqrstuvwxyz"

\* t[k], "" outside the string
At(t, k) == IF 0 <= k /\ k < Len(t) THEN SubSeq(t, k + 1, k + 1) ELSE ""

\* t[a:b]
Slice(t, a, b) == SubSeq(t, a + 1, b)

Max(S) == CHOOSE x \in S : \A y \in S : y <= x

Min(S) == CHOOSE x \in S : \A y \in S : x <= y

LowerMap ==
    [c \in {At(UpperAlpha, k) : k \in 0..25} |->
        At(LowerAlpha, CHOOSE k \in 0..25 : At(UpperAlpha, k) = c)]

\* str.lower() of one character
LowerCh(c) == IF c \in DOMAIN LowerMap THEN LowerMap[c] ELSE c

RECURSIVE Lower(_)
\* str.lower()
Lower(s) == IF Len(s) = 0 THEN "" ELSE LowerCh(At(s, 0)) \o Lower(Slice(s, 1, Len(s)))

\* one literal of a pattern compiled with re.IGNORECASE against one character
EqIgnoreCase(c, p) ==
    \/ LowerCh(c) = LowerCh(p)
    \/ LowerCh(p) = "s" /\ c = LongS

\* the literal lit of an IGNORECASE pattern matches t at offset k
MatchLit(t, k, lit) ==
    /\ k + Len(lit) <= Len(t)
    /\ \A j \in 0..(Len(lit) - 1) : EqIgnoreCase(At(t, k + j), At(lit, j))

RECURSIVE ClassRun(_, _, _)
\* how many characters of the class chars stand at offset k
ClassRun(t, k, chars) ==
    IF At(t, k) \in chars THEN 1 + ClassRun(t, k + 1, chars) ELSE 0

\* no upper limit of a repetition (* and +)
Unbounded == -1

\* an element of a pattern: a character class repeated min..max times (greedy)
Cls(chars, min, max, cap) ==
    [kind |-> "class", chars |-> chars, alts |-> <<>>, min |-> min,
     max |-> max, cap |-> cap]

\* an element of a pattern: (a|b|...) with the alternatives in order
Alt(alts, cap) ==
    [kind |-> "alt", chars |-> {}, alts |-> alts, min |-> 1, max |-> 1,
     cap |-> cap]

\* an element of a pattern: (?:a|b|...)?
OptAlt(alts) ==
    [kind |-> "alt", chars |-> {}, alts |-> alts, min |-> 0, max |-> 1,
     cap |-> ""]

NoGroups == [g1 |-> "", g2 |-> ""]

\* the text a capturing group took
Capture(caps, cap, text) == IF cap = "" THEN caps ELSE [caps EXCEPT ![cap] = text]

\* how many characters a greedy class element takes first at offset k
FirstCount(t, k, e) ==
    IF e.max # Unbounded /\ ClassRun(t, k, e.chars) > e.max THEN e.max
    ELSE ClassRun(t, k, e.chars)

RECURSIVE MatchFrom(_, _, _, _, _)
RECURSIVE Repeat(_, _, _, _, _, _)
RECURSIVE Choice(_, _, _, _, _, _)
\* the ways elements j.. of pat match t at offset k, in the order the
\* backtracking matcher of re comes to them: the first is re's match
MatchFrom(t, k, pat, j, caps) ==
    IF j > Len(pat) THEN <<[end |-> k, groups |-> caps]>>
    ELSE IF pat[j].kind = "class"
    THEN Repeat(t, k, pat, j, caps, FirstCount(t, k, pat[j]))
    ELSE Choice(t, k, pat, j, caps, 1)

\* a greedy repetition: n characters, then n - 1, ... down to min
Repeat(t, k, pat, j, caps, n) ==
    IF n < pat[j].min THEN <<>>
    ELSE MatchFrom(t, k + n, pat, j + 1,
                   Capture(caps, pat[j].cap, Slice(t, k, k + n)))
         \o Repeat(t, k, pat, j, caps, n - 1)

\* an alternation: alternative a, then the later ones, then, for an
\* optional group, nothing
Choice(t, k, pat, j, caps, a) ==
    IF a > Len(pat[j].alts)
    THEN IF pat[j].min = 0 THEN MatchFrom(t, k, pat, j + 1, caps) ELSE <<>>
    ELSE (IF MatchLit(t, k, pat[j].alts[a])
          THEN MatchFrom(t, k + Len(pat[j].alts[a]), pat, j + 1,
                         Capture(caps, pat[j].cap,
                                 Slice(t, k, k + Len(pat[j].alts[a]))))
          ELSE <<>>)
         \o Choice(t, k, pat, j, caps, a + 1)

\* the offsets from pos on at which pat matches t
MatchOffsets(pat, t, pos) ==
    {k \in pos..Len(t) : Len(MatchFrom(t, k, pat, 1, NoGroups)) # 0}

\* the leftmost match of pat in t from offset pos on, as the set of its
\* start(), end() and groups; the empty set when there is none
Leftmost(pat, t, pos) ==
    {[start |-> kr[1], end |-> kr[2][1].end, groups |-> kr[2][1].groups] :
        kr \in {<<k, MatchFrom(t, k, pat, 1, NoGroups)>> :
                   k \in UNION {{h \in S : \A g \in S : h <= g} :
                                   S \in {MatchOffsets(pat, t, pos)}}}}

\* re.search(pat, t, re.IGNORECASE)
Search(pat, t) == Leftmost(pat, t, 0)

\* str.strip()
Strip(s) ==
    LET keep == {k \in 0..(Len(s) - 1) : At(s, k) \notin Whitespace}
    IN  IF keep = {} THEN "" ELSE Slice(s, Min(keep), Max(keep) + 1)

RECURSIVE Split(_)
\* str.split('\n')
Split(s) ==
    LET nl == {k \in 0..(Len(s) - 1) : At(s, k) = "\n"}
    IN  IF nl = {} THEN <<s>>
        ELSE <<Slice(s, 0, Min(nl))>> \o Split(Slice(s, Min(nl) + 1, Len(s)))

RECURSIVE Join(_, _)
\* sep.join(ps)
Join(ps, sep) ==
    IF Len(ps) = 0 THEN ""
    ELSE IF Len(ps) = 1 THEN ps[1]
    ELSE ps[1] \o sep \o Join(Tail(ps), sep)

\* str.zfill(2)
\* a variant: no padding
NoFill(s) == s

ZFill2(s) == IF Len(s) < 2 THEN IF Len(s) = 1 THEN "0" \o s ELSE "00" ELSE s

----------------------------------------------------------------------------
(* extract_calendar_of_wisdom.py: the marker pattern and its scan *)

\* the alternation of date_pattern, in the pattern's order
MonthPatternA ==
    <<"January", "February", "March", "April", "May", "June", "July",
      "August", "September", "October", "November", "December">>

\* month_to_number's table
MonthsA ==
    [january |-> "01", february |-> "02", march |-> "03", april |-> "04",
     may |-> "05", june |-> "06", july |-> "07", august |-> "08",
     september |-> "09", october |-> "10", november |-> "11",
     december |-> "12"]

NoMonth == "None"

\* month_to_number: months.get(month_name.lower())
month_to_number(month_name) ==
    IF Lower(month_name) \in DOMAIN MonthsA THEN MonthsA[Lower(month_name)]
    ELSE NoMonth

\* date_pattern:
\*   \n \s* (January|...|December) \s+ (\d{1,2}) \s* \n
date_pattern ==
    <<Cls({"\n"}, 1, 1, ""), Cls(Whitespace, 0, Unbounded, ""),
      Alt(MonthPatternA, "g1"), Cls(Whitespace, 1, Unbounded, ""),
      Cls(Digits, 1, 2, "g2"), Cls(Whitespace, 0, Unbounded, ""),
      Cls({"\n"}, 1, 1, "")>>

RECURSIVE FindIter(_, _, _)
\* re.finditer(pat, t, re.IGNORECASE) from offset pos: the leftmost match,
\* then the scan goes on at its end
FindIter(pat, t, pos) ==
    IF Leftmost(pat, t, pos) = {} THEN <<>>
    ELSE LET m == CHOOSE r \in Leftmost(pat, t, pos) : TRUE
         IN  <<[start |-> m.start, end |-> m.end, month |-> m.groups.g1,
                day |-> m.groups.g2]>>
             \o FindIter(pat, t, m.end)

\* matches = list(re.finditer(date_pattern, full_text, re.IGNORECASE))
FindMatches(t) == FindIter(date_pattern, t, 0)

----------------------------------------------------------------------------
(* extract_calendar_of_wisdom.py: the clean-up of one span *)

\* the threshold of `len(clean_text) > 10`
MinEntryLen == 10

RECURSIVE StripAll(_)
StripAll(ps) == IF Len(ps) = 0 THEN <<>> ELSE <<Strip(Head(ps))>> \o StripAll(Tail(ps))

\* a variant: the paragraph filter left out
KeepEveryLine(para) == TRUE

\* para = para.strip(); if para and len(para) > 1
KeepPara(para) == Len(para) # 0 /\ Len(para) > 1

\* the paragraphs list built from entry_text
Paragraphs(entry_text) == SelectSeq(StripAll(Split(entry_text)), KeepPara)

\* a variant: the paragraphs joined by one line break
JoinedByOneBreak(raw) == Join(Paragraphs(Strip(raw)), "\n")

\* clean_text, from the raw span full_text[start_pos:end_pos]
CleanText(raw) == Join(Paragraphs(Strip(raw)), "\n\n")

\* a variant: the length test with the cut-off left out
AcceptedAnyLength(clean_text) == Len(clean_text) # 0

\* if clean_text and len(clean_text) > 10
Accepted(clean_text) == Len(clean_text) # 0 /\ Len(clean_text) > MinEntryLen

----------------------------------------------------------------------------
(* extract_epub.py: the date in a title *)

\* the alternation of pattern1 and pattern2, in the patterns' order
MonthPatternB ==
    <<"january", "february", "march", "april", "may", "june", "july",
      "august", "september", "october", "november", "december",
      "jan", "feb", "mar", "apr", "may", "jun", "jul", "aug", "sep", "sept",
      "oct", "nov", "dec">>

\* the months dict of extract_date_from_title
MonthsB ==
    [january |-> "01", jan |-> "01", february |-> "02", feb |-> "02",
     march |-> "03", mar |-> "03", april |-> "04", apr |-> "04",
     may |-> "05", june |-> "06", jun |-> "06", july |-> "07", jul |-> "07",
     august |-> "08", aug |-> "08", september |-> "09", sep |-> "09",
     sept |-> "09", october |-> "10", oct |-> "10", november |-> "11",
     nov |-> "11", december |-> "12", dec |-> "12"]

\* the alternation (?:st|nd|rd|th) of pattern2
OrdinalSuffixes == <<"st", "nd", "rd", "th">>

NoKey == "None"

KeyError == "KeyError"

\* months[name.lower()]: a KeyError when the dict has no such key
MonthLookupB(name) ==
    IF Lower(name) \in DOMAIN MonthsB THEN MonthsB[Lower(name)] ELSE KeyError

\* pattern1: (january|...|dec) \s+ (\d{1,2})
pattern1 ==
    <<Alt(MonthPatternB, "g1"), Cls(Whitespace, 1, Unbounded, ""),
      Cls(Digits, 1, 2, "g2")>>

\* pattern2: (\d{1,2}) (?:st|nd|rd|th)? \s+ (january|...|dec)
pattern2 ==
    <<Cls(Digits, 1, 2, "g1"), OptAlt(OrdinalSuffixes),
      Cls(Whitespace, 1, Unbounded, ""), Alt(MonthPatternB, "g2")>>

\* pattern3: day \s+ (\d{1,3})
pattern3 ==
    <<Alt(<<"day">>, ""), Cls(Whitespace, 1, Unbounded, ""),
      Cls(Digits, 1, 3, "g1")>>

DigitValue ==
    [c \in Digits |-> CHOOSE v \in 0..9 : At("0123456789", v) = c]

RECURSIVE ToInt(_)
\* int(s), s a run of digits
ToInt(s) ==
    IF Len(s) = 0 THEN 0
    ELSE 10 * ToInt(Slice(s, 0, Len(s) - 1)) + DigitValue[At(s, Len(s) - 1)]

\* "%02d" % n, n >= 0
Fmt02(n) == IF n < 10 THEN "0" \o ToString(n) ELSE ToString(n)

\* the month lengths of 2024, the year extract_date_from_title counts in
DaysIn2024 == <<31, 29, 31, 30, 31, 30, 31, 31, 30, 31, 30, 31>>

RECURSIVE DateAfter(_, _)
\* datetime(2024, month, 1) + timedelta(days=d), as (month, day)
DateAfter(month, d) ==
    IF d < DaysIn2024[month] THEN <<month, d + 1>>
    ELSE DateAfter(month + 1, d - DaysIn2024[month])

\* the `1 <= day_number <= 366` of pattern 3
MaxDayNumber == 366

\* (datetime(2024, 1, 1) + timedelta(days=day_number - 1)).strftime('%m-%d')
DayOfYearKey(day_number) ==
    LET md == DateAfter(1, day_number - 1)
    IN  Fmt02(md[1]) \o "-" \o Fmt02(md[2])

\* the pattern 3 branch: int(match.group(1)), the range test, the date
Pattern3Key(found) ==
    LET day_number == ToInt(found.groups.g1)
    IN  IF 1 <= day_number /\ day_number <= MaxDayNumber
        THEN DayOfYearKey(day_number)
        ELSE NoKey

\* f"{month}-{day}" with month = months[name.lower()]
KeyOf(name, day) ==
    IF MonthLookupB(name) = KeyError THEN KeyError
    ELSE MonthLookupB(name) \o "-" \o ZFill2(day)

\* the three patterns in turn, on the stripped title
DateFromTitle(t) ==
    IF Search(pattern1, t) # {}
    THEN LET m == CHOOSE r \in Search(pattern1, t) : TRUE
         IN  KeyOf(m.groups.g1, m.groups.g2)
    ELSE IF Search(pattern2, t) # {}
    THEN LET m == CHOOSE r \in Search(pattern2, t) : TRUE
         IN  KeyOf(m.groups.g2, m.groups.g1)
    ELSE IF Search(pattern3, t) # {}
    THEN Pattern3Key(CHOOSE r \in Search(pattern3, t) : TRUE)
    ELSE NoKey

\* extract_date_from_title: a key, NoKey, or KeyError when months[...] raises
extract_date_from_title(raw_title) == DateFromTitle(Strip(raw_title))

\* [p for p in ps if p]
NonEmpty(p) == Len(p) # 0

\* clean_html: the block elements' texts, else the lines of the whole text
clean_html(content) ==
    LET paragraphs == SelectSeq(StripAll(content.blocks), NonEmpty)
    IN  IF Len(paragraphs) # 0 THEN Join(paragraphs, "\n\n")
        ELSE Join(SelectSeq(StripAll(Split(content.text)), NonEmpty), "\n\n")

\* the title extract_chapters gives a unit: its first heading's text when
\* that is not blank, else the item's name
UnitTitle(unit) ==
    IF Len(unit.heading) # 0 /\ Len(Strip(unit.heading[1])) # 0
    THEN Strip(unit.heading[1])
    ELSE unit.name

----------------------------------------------------------------------------
(* The store, and the audit of extract_calendar_of_wisdom.py's save_chapters *)

\* chapters = {}
EmptyStore == [k \in {} |-> ""]

\* a variant: an earlier value under the key is kept
PutIfAbsent(store, key, text) ==
    [k \in DOMAIN store \cup {key} |->
        IF k \in DOMAIN store THEN store[k] ELSE text]

\* chapters[date_key] = text
Put(store, key, text) ==
    [k \in DOMAIN store \cup {key} |-> IF k = key THEN text ELSE store[k]]

NoFile == "NoFile"

\* a variant: the month lengths of a common year
DaysInCommonYear == <<31, 28, 31, 30, 31, 30, 31, 31, 30, 31, 30, 31>>

\* the list in `days_in_month = [...][month - 1]`
DaysInMonth == <<31, 29, 31, 30, 31, 30, 31, 31, 30, 31, 30, 31>>

\* the inner loop: f"{month:02d}-{day:02d}" for day in range(1, days_in_month + 1)
MonthKeys(month) ==
    [day \in 1..DaysInMonth[month] |-> Fmt02(month) \o "-" \o Fmt02(day)]

RECURSIVE KeysFrom(_)
\* the outer loop, for month in range(month, 13): every key it tests, in order
KeysFrom(month) ==
    IF month >= 13 THEN <<>> ELSE MonthKeys(month) \o KeysFrom(month + 1)

AuditKeys == KeysFrom(1)

\* the missing list: the tested keys that are not in chapters
MissingDates(store) ==
    LET absent(k) == k \notin DOMAIN store
    IN  SelectSeq(AuditKeys, absent)

\* the cut-off of `if len(missing) <= 20`
MaxListed == 20

\* what the audit prints: the count, and the dates when there are few
AuditReport(store) ==
    LET m == MissingDates(store)
    IN  [ran |-> TRUE, missing |-> m, count |-> Len(m),
         listed |-> IF Len(m) # 0 /\ Len(m) <= MaxListed THEN m ELSE <<>>,
         all_present |-> Len(m) = 0]

NoAudit ==
    [ran |-> FALSE, missing |-> <<>>, count |-> 0, listed |-> <<>>,
     all_present |-> FALSE]

----------------------------------------------------------------------------
(* The inputs: the EPUB's document units *)

\* bounds of the generated inputs
MaxLines == 4

MaxBodyLines == 3

MaxItems == 2

MaxTitleParts == 3

MaxDayN == 400

\* every sequence over S of length lo..hi
SeqsOf(S, lo, hi) == UNION {[1..n -> S] : n \in lo..hi}

\* the lines the generated blobs are made of
LineSet ==
    {"", "January 1", "fEBRUARY  02 ", "Augu$t 5", "Hello world!", "x"}

GenBlobs == {Join(ls, "\n") : ls \in SeqsOf(LineSet, 1, MaxLines)}

\* the lines of the spans that follow one marker
BodyLines ==
    {"", " ", "x", " y\t", "ab ", "\tHello world! ", "It is  so."}

BodyBlobs ==
    {"\nJanuary 1\n" \o Join(ls, "\n") : ls \in SeqsOf(BodyLines, 1, MaxBodyLines)}

Scenario1Blob == "\nJanuary 1\nHello\nworld\n\nFebruary 2\nBye\n"

Scenario2Blob == "\nMarch 5\nx"

ScenarioBlobs ==
    {Scenario1Blob,
     Scenario2Blob,
     "\nJanuary 1\nAn older text of the day.\n",
     "\nJanuary 1\nshort\n",
     "\nJanuary 1\nFirst entry text\nJanuary 1\nSecond entry text\n",
     "Preface\nJanuary 1\nFirst entry text\nAugu$t 5\nSkipped entry text\nFebruary 2\nSecond entry text\n",
     "\nMay 0\nZero day entry text\nJune 99\nNinety-nine entry text",
     "\nJanuary 1\nFebruary 2\nThe text after two markers\n"}

Blobs == GenBlobs \cup BodyBlobs \cup ScenarioBlobs

\* the document lists of the calendar extractor's runs
ItemListsA ==
    {<<>>} \cup {<<b>> : b \in Blobs} \cup SeqsOf(ScenarioBlobs, 2, MaxItems)

TitleParts ==
    {"January", "Sept", "Augu$t", "Day", " ", "2", "31", "nd"}

RECURSIVE Concat(_)
Concat(ps) == IF Len(ps) = 0 THEN "" ELSE Head(ps) \o Concat(Tail(ps))

GenTitles == {Concat(ps) : ps \in SeqsOf(TitleParts, 1, MaxTitleParts)}

DayTitle(n) == "Day " \o ToString(n)

DayTitles == {DayTitle(n) : n \in 0..MaxDayN}

FullContent ==
    [blocks |-> <<" The heading ", "", "Some text of the day.">>,
     text |-> "The heading\nSome text of the day."]

OtherContent ==
    [blocks |-> <<"Another text.">>, text |-> "Another text."]

LinesContent ==
    [blocks |-> <<>>, text |-> " line one \n\n\tline two\n"]

EmptyContent == [blocks |-> <<" ", "">>, text |-> " \n "]

Contents == {FullContent, OtherContent, LinesContent, EmptyContent}

Unit(name, heading, content) ==
    [name |-> name, heading |-> heading, content |-> content]

ScenarioTitles ==
    {"January 1", "1st January", "2nd February", "Contents", "Augu$t 5",
     "March 32", "Day 60", "Day 1000"}

ScenarioUnits ==
    {Unit("ch.xhtml", <<t>>, c) : t \in ScenarioTitles, c \in Contents}
    \cup {Unit("day 12.xhtml", h, FullContent) : h \in {<<>>, <<"  ">>}}
    \cup {Unit("cover.xhtml", <<>>, OtherContent)}

MultiUnits ==
    {Unit("ch.xhtml", <<"January 1">>, FullContent),
     Unit("ch.xhtml", <<"1st January">>, OtherContent),
     Unit("ch.xhtml", <<"Jan 1">>, EmptyContent),
     Unit("ch.xhtml", <<"2nd February">>, LinesContent),
     Unit("ch.xhtml", <<"Contents">>, FullContent),
     Unit("ch.xhtml", <<"Augu$t 5">>, FullContent)}

UnitsB ==
    {Unit("ch.xhtml", <<t>>, FullContent) : t \in GenTitles \cup DayTitles}
    \cup ScenarioUnits

\* the document lists of the title extractor's runs
ItemListsB ==
    {<<>>} \cup {<<u>> : u \in UnitsB} \cup SeqsOf(MultiUnits, 2, MaxItems)

----------------------------------------------------------------------------
(* extract_calendar_of_wisdom.py: main, extract_chapters, save_chapters *)

\* the rest of a script's state before it starts
Idle ==
    /\ full_text = ""
    /\ matches = <<>>
    /\ i = 0
    /\ total_entries = 0
    /\ skipped = <<>>
    /\ title = ""
    /\ date_key = NoKey
    /\ trace = <<>>
    /\ audit = NoAudit
    /\ chapter_content = <<>>
    /\ outfile = NoFile
    /\ exit_code = -1
    /\ env = <<>>
    /\ sent = <<>>

Init ==
    /\ prog \in {"calendar", "epub"}
    /\ pc = "start"
    /\ items \in IF prog = "calendar" THEN ItemListsA ELSE ItemListsB
    /\ idx = 0
    /\ chapters = EmptyStore
    /\ Idle

InitCalendar == Init /\ prog = "calendar"

InitEpub == Init /\ prog = "epub"

\* epub.read_epub raises: extract_chapters returns {}, main prints the error
\* and returns
CalReadFail ==
    /\ prog = "calendar" /\ pc = "start"
    /\ pc' = "done"
    /\ exit_code' = 0
    /\ UNCHANGED <<prog, items, idx, full_text, matches, i, chapters,
                   total_entries, skipped, title, date_key, trace, audit,
                   chapter_content, outfile, env, sent>>

\* epub.read_epub returns: chapters = {}, total_entries = 0
CalReadOk ==
    /\ prog = "calendar" /\ pc = "start"
    /\ pc' = "items"
    /\ UNCHANGED <<prog, items, idx, full_text, matches, i, chapters,
                   total_entries, skipped, title, date_key, trace, audit,
                   chapter_content, outfile, exit_code, env, sent>>

\* where the loops stand once i markers of the current unit are handled
AfterMarker(n) == IF n < Len(matches) THEN "markers" ELSE "items"

\* for item in items: full_text and matches of the next unit
CalNextItem ==
    /\ prog = "calendar" /\ pc = "items" /\ idx < Len(items)
    /\ idx' = idx + 1
    /\ full_text' = items[idx + 1]
    /\ matches' = FindMatches(items[idx + 1])
    /\ i' = 0
    /\ pc' = IF Len(matches') # 0 THEN "markers" ELSE "items"
    /\ UNCHANGED <<prog, items, chapters, total_entries, skipped, title,
                   date_key, trace, audit, chapter_content, outfile,
                   exit_code, env, sent>>

\* start_pos = match.end()
StartPos(ms, n) == ms[n + 1].end

\* a variant: the span runs on over markers whose month is not in the table
EndPosPastSkipped(ms, n, text) ==
    IF \A j \in (n + 2)..Len(ms) : month_to_number(ms[j].month) = NoMonth
    THEN Len(text)
    ELSE ms[Min({j \in (n + 2)..Len(ms) :
                    month_to_number(ms[j].month) # NoMonth})].start

\* end_pos: the next match's start, or len(full_text)
EndPos(ms, n, text) ==
    IF n + 1 < Len(ms) THEN ms[n + 2].start ELSE Len(text)

\* date_key = f"{month_num}-{day}", day = match.group(2).zfill(2)
DateKeyA(m) == month_to_number(m.month) \o "-" \o ZFill2(m.day)

\* the locals of the iteration that handles match n of ms in text
MarkerLocals(text, ms, n, unit) ==
    CHOOSE loc \in
        {[unit |-> unit, i |-> n, date_key |-> DateKeyA(ms[n + 1]),
          start_pos |-> StartPos(ms, n), end_pos |-> EndPos(ms, n, text),
          entry |-> clean_text, accepted |-> Accepted(clean_text)] :
            clean_text \in {CleanText(Slice(text, StartPos(ms, n),
                                            EndPos(ms, n, text)))}} : TRUE

\* if not month_num: continue
CalMarkerSkip ==
    /\ prog = "calendar" /\ pc = "markers"
    /\ month_to_number(matches[i + 1].month) = NoMonth
    /\ i' = i + 1
    /\ pc' = AfterMarker(i + 1)
    /\ UNCHANGED <<prog, items, idx, full_text, matches, chapters,
                   total_entries, skipped, title, date_key, trace, audit,
                   chapter_content, outfile, exit_code, env, sent>>

\* the iteration whose clean_text passes the length test
CalMarkerStore ==
    /\ prog = "calendar" /\ pc = "markers"
    /\ month_to_number(matches[i + 1].month) # NoMonth
    /\ \E loc \in {MarkerLocals(full_text, matches, i, idx)} :
        /\ loc.accepted
        /\ chapters' = Put(chapters, loc.date_key, loc.entry)
        /\ date_key' = loc.date_key
        /\ trace' = Append(trace, loc)
    /\ total_entries' = total_entries + 1
    /\ i' = i + 1
    /\ pc' = AfterMarker(i + 1)
    /\ UNCHANGED <<prog, items, idx, full_text, matches, skipped, title,
                   audit, chapter_content, outfile, exit_code, env, sent>>

\* the iteration whose clean_text fails the length test
CalMarkerReject ==
    /\ prog = "calendar" /\ pc = "markers"
    /\ month_to_number(matches[i + 1].month) # NoMonth
    /\ \E loc \in {MarkerLocals(full_text, matches, i, idx)} :
        /\ ~loc.accepted
        /\ date_key' = loc.date_key
        /\ trace' = Append(trace, loc)
    /\ i' = i + 1
    /\ pc' = AfterMarker(i + 1)
    /\ UNCHANGED <<prog, items, idx, full_text, matches, chapters,
                   total_entries, skipped, title, audit, chapter_content,
                   outfile, exit_code, env, sent>>

\* extract_chapters returns an empty dict: main prints the error and returns
CalNoEntries ==
    /\ prog = "calendar" /\ pc = "items" /\ idx = Len(items)
    /\ DOMAIN chapters = {}
    /\ pc' = "done"
    /\ exit_code' = 0
    /\ UNCHANGED <<prog, items, idx, full_text, matches, i, chapters,
                   total_entries, skipped, title, date_key, trace, audit,
                   chapter_content, outfile, env, sent>>

\* extract_chapters returns entries: main calls save_chapters
CalToSave ==
    /\ prog = "calendar" /\ pc = "items" /\ idx = Len(items)
    /\ DOMAIN chapters # {}
    /\ pc' = "save"
    /\ UNCHANGED <<prog, items, idx, full_text, matches, i, chapters,
                   total_entries, skipped, title, date_key, trace, audit,
                   chapter_content, outfile, exit_code, env, sent>>

\* save_chapters: the dump (the JSON object; its key order is not kept
\* here), then the audit when chapters is not empty
SaveChapters ==
    /\ prog \in {"calendar", "save"} /\ pc = "save"
    /\ outfile' = chapters
    /\ audit' = IF DOMAIN chapters # {} THEN AuditReport(chapters) ELSE NoAudit
    /\ pc' = "done"
    /\ exit_code' = 0
    /\ UNCHANGED <<prog, items, idx, full_text, matches, i, chapters,
                   total_entries, skipped, title, date_key, trace,
                   chapter_content, env, sent>>

----------------------------------------------------------------------------
(* extract_epub.py: main from its call of extract_chapters on *)

\* epub.read_epub raises: sys.exit(1)
EpubReadFail ==
    /\ prog = "epub" /\ pc = "start"
    /\ pc' = "done"
    /\ exit_code' = 1
    /\ UNCHANGED <<prog, items, idx, full_text, matches, i, chapters,
                   total_entries, skipped, title, date_key, trace, audit,
                   chapter_content, outfile, env, sent>>

EpubReadOk ==
    /\ prog = "epub" /\ pc = "start"
    /\ pc' = "items"
    /\ UNCHANGED <<prog, items, idx, full_text, matches, i, chapters,
                   total_entries, skipped, title, date_key, trace, audit,
                   chapter_content, outfile, exit_code, env, sent>>

\* the locals of the iteration that handles unit number n
UnitLocals(unit, n) ==
    CHOOSE loc \in
        {[unit |-> n, title |-> t, date_key |-> extract_date_from_title(t),
          entry |-> text_content, accepted |-> Len(text_content) # 0] :
            t \in {UnitTitle(unit)},
            text_content \in {clean_html(unit.content)}} : TRUE

EpubAtItem == prog = "epub" /\ pc = "items" /\ idx < Len(items)

\* months[...] raises KeyError inside extract_date_from_title: nothing
\* catches it, the interpreter exits with status 1
ItemCrash(loc) ==
    /\ loc.date_key = KeyError
    /\ pc' = "done"
    /\ exit_code' = 1
    /\ UNCHANGED <<chapters, skipped, date_key, trace>>

\* no date in the title: skipped.append(f"{title} (no date found)")
ItemNoDate(loc) ==
    /\ loc.date_key = NoKey
    /\ date_key' = NoKey
    /\ skipped' = Append(skipped, loc.title \o " (no date found)")
    /\ UNCHANGED <<pc, exit_code, chapters, trace>>

\* a date and text: chapters[date_key] = text_content
ItemStore(loc) ==
    /\ loc.date_key \notin {NoKey, KeyError}
    /\ loc.accepted
    /\ date_key' = loc.date_key
    /\ chapters' = Put(chapters, loc.date_key, loc.entry)
    /\ trace' = Append(trace, loc)
    /\ UNCHANGED <<pc, exit_code, skipped>>

\* a date and no text: skipped.append(f"{title} (empty content)")
ItemEmpty(loc) ==
    /\ loc.date_key \notin {NoKey, KeyError}
    /\ ~loc.accepted
    /\ date_key' = loc.date_key
    /\ skipped' = Append(skipped, loc.title \o " (empty content)")
    /\ trace' = Append(trace, loc)
    /\ UNCHANGED <<pc, exit_code, chapters>>

\* one iteration of `for idx, item in enumerate(items, 1)`: the KeyError
EpubItemCrash ==
    /\ EpubAtItem
    /\ idx' = idx + 1
    /\ \E loc \in {UnitLocals(items[idx + 1], idx + 1)} :
        /\ title' = loc.title
        /\ ItemCrash(loc)
    /\ UNCHANGED <<prog, items, full_text, matches, i, total_entries, audit,
                   chapter_content, outfile, env, sent>>

\* one iteration of `for idx, item in enumerate(items, 1)`: no date
EpubItemNoDate ==
    /\ EpubAtItem
    /\ idx' = idx + 1
    /\ \E loc \in {UnitLocals(items[idx + 1], idx + 1)} :
        /\ title' = loc.title
        /\ ItemNoDate(loc)
    /\ UNCHANGED <<prog, items, full_text, matches, i, total_entries, audit,
                   chapter_content, outfile, env, sent>>

\* one iteration of `for idx, item in enumerate(items, 1)`: an entry
EpubItemStore ==
    /\ EpubAtItem
    /\ idx' = idx + 1
    /\ \E loc \in {UnitLocals(items[idx + 1], idx + 1)} :
        /\ title' = loc.title
        /\ ItemStore(loc)
    /\ UNCHANGED <<prog, items, full_text, matches, i, total_entries, audit,
                   chapter_content, outfile, env, sent>>

\* one iteration of `for idx, item in enumerate(items, 1)`: no text
EpubItemEmpty ==
    /\ EpubAtItem
    /\ idx' = idx + 1
    /\ \E loc \in {UnitLocals(items[idx + 1], idx + 1)} :
        /\ title' = loc.title
        /\ ItemEmpty(loc)
    /\ UNCHANGED <<prog, items, full_text, matches, i, total_entries, audit,
                   chapter_content, outfile, env, sent>>

\* extract_chapters returns an empty dict: sys.exit(1)
EpubNoChapters ==
    /\ prog = "epub" /\ pc = "items" /\ idx = Len(items)
    /\ DOMAIN chapters = {}
    /\ pc' = "done"
    /\ exit_code' = 1
    /\ UNCHANGED <<prog, items, idx, full_text, matches, i, chapters,
                   total_entries, skipped, title, date_key, trace, audit,
                   chapter_content, outfile, env, sent>>

\* extract_chapters returns entries: save_chapters dumps them, main returns
EpubSave ==
    /\ prog = "epub" /\ pc = "items" /\ idx = Len(items)
    /\ DOMAIN chapters # {}
    /\ outfile' = chapters
    /\ pc' = "done"
    /\ exit_code' = 0
    /\ UNCHANGED <<prog, items, idx, full_text, matches, i, chapters,
                   total_entries, skipped, title, date_key, trace, audit,
                   chapter_content, env, sent>>

NextCalendar ==
    \/ CalReadFail
    \/ CalReadOk
    \/ CalNextItem
    \/ CalMarkerSkip
    \/ CalMarkerStore
    \/ CalMarkerReject
    \/ CalNoEntries
    \/ CalToSave
    \/ SaveChapters

NextEpub ==
    \/ EpubReadFail
    \/ EpubReadOk
    \/ EpubItemCrash
    \/ EpubItemNoDate
    \/ EpubItemStore
    \/ EpubItemEmpty
    \/ EpubNoChapters
    \/ EpubSave

Next == NextCalendar \/ NextEpub

\* a run of either extractor
Spec == Init /\ [][Next]_vars

\* a run of extract_calendar_of_wisdom.py
SpecCalendar == InitCalendar /\ [][NextCalendar]_vars

\* a run of extract_epub.py
SpecEpub == InitEpub /\ [][NextEpub]_vars

----------------------------------------------------------------------------
(* save_chapters of extract_calendar_of_wisdom.py, called on any store *)

SampleDates == {"01-01", "02-29", "06-30", "12-31"}

\* keys the audit never tests
ExtraKeys == {"02-30", "13-01", "01-00"}

SetOf(seq) == {seq[n] : n \in 1..Len(seq)}

\* the 366 dates of a leap year, by counting days from January 1
LeapYearKeys == {DayOfYearKey(n) : n \in 1..MaxDayNumber}

AuditKeySets ==
    {(LeapYearKeys \ r) \cup e : r \in SUBSET SampleDates, e \in SUBSET ExtraKeys}
    \cup {r \cup e : r \in SUBSET SampleDates, e \in SUBSET ExtraKeys}

AuditStores == {[k \in ks |-> "An entry of the day."] : ks \in AuditKeySets}

InitSave ==
    /\ prog = "save"
    /\ pc = "save"
    /\ items = <<>>
    /\ idx = 0
    /\ chapters \in AuditStores
    /\ Idle

NextSave == SaveChapters

\* one call of save_chapters
SpecSave == InitSave /\ [][NextSave]_vars

----------------------------------------------------------------------------
(* send_daily_chapter.py: main *)

SendDates == {"01-01", "02-29", "06-30", "12-31"}

\* what chapters.json may hold
SendStores ==
    {EmptyStore,
     [k \in {"01-01"} |-> "Hello\n\nworld"],
     [k \in {"01-01", "02-29"} |-> "An entry of the day."],
     [k \in {"06-30", "02-30"} |-> ""],
     [k \in LeapYearKeys |-> "An entry of the day."]}

\* the outcomes of api_instance.send_transac_email: it returns, it raises
\* ApiException, it raises something else
SendOutcomes == {"ok", "ApiException", "error"}

SendEnvs ==
    [api_key : BOOLEAN, sender_email : BOOLEAN, recipient_email : BOOLEAN,
     file : {<<>>} \cup {<<st>> : st \in SendStores},
     today : SendDates, outcome : SendOutcomes]

InitSend ==
    /\ prog = "send"
    /\ pc = "start"
    /\ items = <<>>
    /\ idx = 0
    /\ chapters = EmptyStore
    /\ full_text = ""
    /\ matches = <<>>
    /\ i = 0
    /\ total_entries = 0
    /\ skipped = <<>>
    /\ title = ""
    /\ date_key = NoKey
    /\ trace = <<>>
    /\ audit = NoAudit
    /\ chapter_content = <<>>
    /\ outfile = NoFile
    /\ exit_code = -1
    /\ env \in SendEnvs
    /\ sent = <<>>

\* main: a required environment variable is missing: sys.exit(1)
SendMissingVars ==
    /\ prog = "send" /\ pc = "start"
    /\ ~(env.api_key /\ env.sender_email /\ env.recipient_email)
    /\ pc' = "done"
    /\ exit_code' = 1
    /\ UNCHANGED <<prog, items, idx, full_text, matches, i, chapters,
                   total_entries, skipped, title, date_key, trace, audit,
                   chapter_content, outfile, env, sent>>

\* load_chapters: chapters.json does not exist: sys.exit(1)
SendNoFile ==
    /\ prog = "send" /\ pc = "start"
    /\ env.api_key /\ env.sender_email /\ env.recipient_email
    /\ Len(env.file) = 0
    /\ pc' = "done"
    /\ exit_code' = 1
    /\ UNCHANGED <<prog, items, idx, full_text, matches, i, chapters,
                   total_entries, skipped, title, date_key, trace, audit,
                   chapter_content, outfile, env, sent>>

\* get_todays_chapter: (None, today) when today is no key of chapters, else
\* (chapters[today], today); None is the empty tuple here
get_todays_chapter(store, today) ==
    IF today \notin DOMAIN store THEN <<<<>>, today>>
    ELSE <<<<store[today]>>, today>>

\* load_chapters returns, then chapter_content, date_str = get_todays_chapter(chapters)
SendLookup ==
    /\ prog = "send" /\ pc = "start"
    /\ env.api_key /\ env.sender_email /\ env.recipient_email
    /\ Len(env.file) # 0
    /\ chapters' = env.file[1]
    /\ chapter_content' = get_todays_chapter(env.file[1], env.today)[1]
    /\ date_key' = get_todays_chapter(env.file[1], env.today)[2]
    /\ pc' = "branch"
    /\ UNCHANGED <<prog, items, idx, full_text, matches, i, total_entries,
                   skipped, title, trace, audit, outfile, exit_code, env,
                   sent>>

\* send_email: True when the API call returns, False on ApiException; any
\* other exception is not caught
send_email(outcome) == outcome = "ok"

\* a variant: status 0 whatever the send did
ExitZero(outcome) == 0

\* sys.exit(0 if success else 1); an uncaught exception ends the process
\* with status 1
ExitStatus(outcome) == IF send_email(outcome) THEN 0 ELSE 1

\* main's test `if chapter_content is None`
IsNone(content) == Len(content) = 0

\* the no-entry branch: send_error_notification, then sys.exit
SendNoEntry ==
    /\ prog = "send" /\ pc = "branch"
    /\ IsNone(chapter_content)
    /\ sent' = Append(sent, [kind |-> "notification",
                             subject |-> "Daily Reading - No Chapter Found for " \o date_key])
    /\ exit_code' = ExitStatus(env.outcome)
    /\ pc' = "done"
    /\ UNCHANGED <<prog, items, idx, full_text, matches, i, chapters,
                   total_entries, skipped, title, date_key, trace, audit,
                   chapter_content, outfile, env>>

MonthNames ==
    <<"January", "February", "March", "April", "May", "June", "July",
      "August", "September", "October", "November", "December">>

\* date_obj.strftime('%B %d') of the date of date_str in the current year
readable_date(date_str) ==
    MonthNames[ToInt(Slice(date_str, 0, 2))] \o " " \o Slice(date_str, 3, 5)

\* the chapter branch: format_email_html, send_email, then sys.exit
SendChapter ==
    /\ prog = "send" /\ pc = "branch"
    /\ ~IsNone(chapter_content)
    /\ sent' = Append(sent, [kind |-> "chapter",
                             subject |-> "Your Daily Reading - "
                                         \o readable_date(date_key)])
    /\ exit_code' = ExitStatus(env.outcome)
    /\ pc' = "done"
    /\ UNCHANGED <<prog, items, idx, full_text, matches, i, chapters,
                   total_entries, skipped, title, date_key, trace, audit,
                   chapter_content, outfile, env>>

NextSend ==
    \/ SendMissingVars
    \/ SendNoFile
    \/ SendLookup
    \/ SendNoEntry
    \/ SendChapter

\* a run of send_daily_chapter.py
SpecSend == InitSend /\ [][NextSend]_vars

----------------------------------------------------------------------------
(* Properties of extract_calendar_of_wisdom.py *)

\* the marker loop of the only unit of a one-unit run is over
LoopDoneOn(blob) ==
    /\ prog = "calendar"
    /\ items = <<blob>>
    /\ idx = 1
    /\ pc \in {"items", "save", "done"}

\* C1, as stated: on the blob of Scenario 1 the store after the marker loop is
\* exactly {"01-01": "Hello\n\nworld", "02-02": "Bye"}
C1_StoreAsStated ==
    LoopDoneOn(Scenario1Blob)
        => chapters = ("01-01" :> "Hello\n\nworld" @@ "02-02" :> "Bye")

\* C1, amended: on the blob of Scenario 1 the store after the marker loop is
\* exactly {"01-01": "Hello\n\nworld"}; the entry "Bye" of the marker
\* February 2 is 3 characters long, fails the length test and is not stored
C1_StoreOfScenario1 ==
    LoopDoneOn(Scenario1Blob) => chapters = ("01-01" :> "Hello\n\nworld")

\* C1: the loop has handled both markers of the blob of Scenario 1
C1_Scenario1Done ==
    /\ LoopDoneOn(Scenario1Blob)
    /\ Len(matches) = 2
    /\ Len(trace) = 2
    /\ trace[2].date_key = "02-02"
    /\ trace[2].entry = "Bye"

\* a line that holds only a month name, whitespace and a 1-2 digit day
marker_line ==
    <<Cls(Whitespace \ {"\n"}, 0, Unbounded, ""), Alt(MonthPatternA, "g1"),
      Cls(Whitespace \ {"\n"}, 1, Unbounded, ""), Cls(Digits, 1, 2, "g2"),
      Cls(Whitespace \ {"\n"}, 0, Unbounded, "")>>

IsMarkerLine(line) ==
    \E r \in {MatchFrom(line, 0, marker_line, 1, NoGroups)} :
        \E n \in 1..Len(r) : r[n].end = Len(line)

\* the marker lines of a blob: those with a line break on either side
MarkerLineCount(blob) ==
    Cardinality({n \in 2..(Len(Split(blob)) - 1) : IsMarkerLine(Split(blob)[n])})

\* each matched marker text followed by its raw span, from match n on
RECURSIVE Reassemble(_, _, _)
Reassemble(text, ms, n) ==
    IF n >= Len(ms) THEN ""
    ELSE Slice(text, ms[n + 1].start, ms[n + 1].end)
         \o Slice(text, StartPos(ms, n), EndPos(ms, n, text))
         \o Reassemble(text, ms, n + 1)

\* the scan of the current unit has run
Scanned == prog = "calendar" /\ idx > 0

\* C2, as stated: the scan of a blob finds as many matches as the blob has
\* marker lines, and the matched markers with their raw spans, concatenated in
\* document order, are the blob
C2_RoundTrip ==
    Scanned =>
        /\ Len(matches) = MarkerLineCount(full_text)
        /\ Reassemble(full_text, matches, 0) = full_text

\* C2: a blob with two marker lines on adjacent lines, of which the scan
\* finds one
C2_AdjacentMarkers ==
    /\ Scanned
    /\ full_text = "\nJanuary 1\nFebruary 2\nThe text after two markers\n"
    /\ MarkerLineCount(full_text) = 2
    /\ Len(matches) = 1

\* the raw span of an iteration recorded in trace
RawSpan(loc) == Slice(items[loc.unit], loc.start_pos, loc.end_pos)

\* C3: normalization is idempotent on accepted entries: the normalized text of
\* an accepted raw span, normalized again, is the same text and is accepted
C3_NormalizeIdempotent ==
    prog = "calendar" =>
        \A n \in 1..Len(trace) :
            trace[n].accepted =>
                /\ trace[n].entry = CleanText(RawSpan(trace[n]))
                /\ CleanText(trace[n].entry) = trace[n].entry
                /\ Accepted(CleanText(trace[n].entry))

\* C3: an accepted entry of two paragraphs whose raw span had lines to trim
\* and a line to drop
C3_NormalizedEntry ==
    /\ prog = "calendar"
    /\ Len(trace) = 1
    /\ trace[1].accepted
    /\ Len(Paragraphs(trace[1].entry)) = 2
    /\ Len(Split(RawSpan(trace[1]))) = 3
    /\ RawSpan(trace[1]) # trace[1].entry
    /\ chapters = ("01-01" :> trace[1].entry)

----------------------------------------------------------------------------
(* Properties of the entry store *)

\* the iterations recorded in trace that were accepted under key k
AcceptedAt(k) ==
    {n \in 1..Len(trace) : trace[n].accepted /\ trace[n].date_key = k}

\* C4: the store is last-write-wins with no merging: its keys are the keys of
\* the accepted occurrences so far, the value under each key is the entry of
\* the last accepted occurrence of that key in traversal order, and so a
\* rejected occurrence leaves the store as it was
C4_LastWriteWins ==
    /\ DOMAIN chapters =
           {trace[n].date_key : n \in {m \in 1..Len(trace) : trace[m].accepted}}
    /\ \A k \in DOMAIN chapters : chapters[k] = trace[Max(AcceptedAt(k))].entry

\* C4: three occurrences of 01-01: accepted, accepted with another entry,
\* rejected; the store holds the second
C4_OverwrittenThenRejected ==
    /\ Len(trace) = 3
    /\ \A n \in 1..3 : trace[n].date_key = "01-01"
    /\ trace[1].accepted /\ trace[2].accepted /\ ~trace[3].accepted
    /\ trace[1].entry # trace[2].entry
    /\ chapters = ("01-01" :> trace[2].entry)

----------------------------------------------------------------------------
(* Properties of the audit *)

----------------------------------------------------------------------------
(* Properties of extract_epub.py *)

\* the numbers N of the titles "Day N" of the runs
DayNumbers == (0..MaxDayN) \cup {1000}

DayTitleOf == [n \in DayNumbers |-> DayTitle(n)]

\* the title extractor has handled a unit
TitleHandled == prog = "epub" /\ idx > 0

\* C6, as stated: the title "Day N" yields a key iff N is in 1..366, and then
\* the N-th date of a leap year; Day 0, Day 367 and Day 1000 yield no key
C6_DayNumberKey ==
    TitleHandled =>
        \A n \in DayNumbers :
            title = DayTitleOf[n] =>
                date_key = IF n \in 1..366 THEN AuditKeys[n] ELSE NoKey

\* C6: the unit titled "Day 1000" is stored under the key of day 100
C6_Day1000Stored ==
    /\ TitleHandled
    /\ title = "Day 1000"
    /\ date_key = "04-09"
    /\ "04-09" \in DOMAIN chapters

IsKey(k) == k \notin {NoKey, KeyError}

Matches(pat, t) == Search(pat, t) # {}

\* C7, as stated: the patterns are tried in the order 1, 2, 3 and the key of
\* the first that matches is returned; "2nd February" gives 02-02; a title
\* that matches none gives no key, is recorded in skipped, leaves the store
\* alone and the loop goes on
C7_FirstMatchWins ==
    TitleHandled =>
        \A t \in {Strip(title)} :
            /\ (Matches(pattern1, t) \/ Matches(pattern2, t)) =>
                   IsKey(date_key) /\ date_key = DateFromTitle(t)
            /\ (~Matches(pattern1, t) /\ ~Matches(pattern2, t)
                    /\ Matches(pattern3, t)) =>
                   date_key = Pattern3Key(CHOOSE r \in Search(pattern3, t) : TRUE)
            /\ (~Matches(pattern1, t) /\ ~Matches(pattern2, t)
                    /\ ~Matches(pattern3, t)) =>
                   /\ date_key = NoKey
                   /\ Len(skipped) # 0
                   /\ skipped[Len(skipped)] = title \o " (no date found)"
                   /\ idx = 1 => chapters = EmptyStore
                   /\ idx < Len(items) => pc = "items"
            /\ t = "2nd February" => date_key = "02-02"

\* C7: pattern 1 matches the title, no key is returned and the run is over
\* with status 1 before the next unit is read
C7_MatchedButRaised ==
    /\ TitleHandled
    /\ Matches(pattern1, Strip(title))
    /\ extract_date_from_title(title) = KeyError
    /\ idx < Len(items)
    /\ pc = "done"
    /\ exit_code = 1

----------------------------------------------------------------------------
(* Properties of send_daily_chapter.py *)

\* main has looked today's date up and it is no key of the loaded store
LookedUpAbsent ==
    /\ prog = "send"
    /\ pc \in {"branch", "done"}
    /\ date_key # NoKey
    /\ env.today \notin DOMAIN chapters

\* C8: when today's key is absent the lookup returns (None, today) and main
\* goes on to the no-entry branch; that branch makes one send, the "No
\* Chapter Found" notification and not the chapter email, and the exit status
\* is 0 iff the send succeeded
C8_AbsentKeyBranch ==
    LookedUpAbsent =>
        /\ IsNone(chapter_content)
        /\ date_key = env.today
        /\ pc = "branch" => sent = <<>> /\ exit_code = -1
        /\ pc = "done" =>
            /\ sent = <<[kind |-> "notification",
                         subject |-> "Daily Reading - No Chapter Found for "
                                     \o env.today]>>
            /\ exit_code \in {0, 1}
            /\ exit_code = 0 <=> env.outcome = "ok"

\* C8: the store has entries but none for February 29; the notification was
\* sent and the status is 0
C8_NotificationSent ==
    /\ LookedUpAbsent
    /\ pc = "done"
    /\ env.today = "02-29"
    /\ DOMAIN chapters # {}
    /\ Len(sent) = 1
    /\ sent[1].kind = "notification"
    /\ exit_code = 0

----------------------------------------------------------------------------
(* Properties of the keys *)

IsDigits(s) == \A n \in 0..(Len(s) - 1) : At(s, n) \in Digits

\* MM-DD with the month in 01..12 and the day in lo..hi
IsDateKey(k, lo, hi) ==
    /\ Len(k) = 5
    /\ At(k, 2) = "-"
    /\ IsDigits(Slice(k, 0, 2)) /\ IsDigits(Slice(k, 3, 5))
    /\ ToInt(Slice(k, 0, 2)) \in 1..12
    /\ ToInt(Slice(k, 3, 5)) \in lo..hi

\* C9, as stated: every key of the store is a zero-padded MM-DD with the
\* month in 01..12 and the day in 01..31
C9_KeysAreDates == \A k \in DOMAIN chapters : IsDateKey(k, 1, 31)

\* C9, amended: every key of the store is a 5-character zero-padded MM-DD
\* with the month in 01..12 and a two-digit day in 00..99; the day is not
\* range-checked, so a marker or title with day 0 or 32..99 is stored
C9_KeysAreTwoDigitPairs == \A k \in DOMAIN chapters : IsDateKey(k, 0, 99)

\* C9: the markers "May 0" and "June 99" are both stored
C9_DayOutOfRangeStored ==
    /\ prog = "calendar"
    /\ DOMAIN chapters = {"05-00", "06-99"}

----------------------------------------------------------------------------
(* Properties of the raw spans *)

\* C10: the span of match i of the current blob starts at the end of match i
\* and ends at the start of match i+1, at the blob's length for the last
\* match; start <= end; the matches do not overlap; a skipped marker changes
\* no other marker's span
C10_SpansContiguous ==
    prog = "calendar" =>
        \A n \in 1..Len(trace) :
            trace[n].unit = idx =>
                \E j \in {trace[n].i + 1} :
                    /\ j \in 1..Len(matches)
                    /\ trace[n].start_pos = matches[j].end
                    /\ trace[n].end_pos =
                           IF j < Len(matches) THEN matches[j + 1].start
                           ELSE Len(full_text)
                    /\ trace[n].start_pos <= trace[n].end_pos
                    /\ matches[j].start < matches[j].end
                    /\ j > 1 => matches[j - 1].end <= matches[j].start

\* C10: three markers, the second skipped: the first span ends where the
\* skipped marker starts, the third span ends at the blob's length
C10_SkippedBetween ==
    /\ prog = "calendar"
    /\ Len(matches) = 3
    /\ month_to_number(matches[2].month) = NoMonth
    /\ Len(trace) = 2
    /\ trace[1].i = 0 /\ trace[2].i = 2
    /\ trace[1].end_pos = matches[2].start
    /\ trace[2].end_pos = Len(full_text)
    /\ DOMAIN chapters = {"01-01", "02-02"}

----------------------------------------------------------------------------
(* Properties of the stored entries of extract_calendar_of_wisdom.py *)

\* the cleaned text of marker n (from 0) of the current blob
CleanedOf(n) ==
    CleanText(Slice(full_text, matches[n + 1].end,
                    IF n + 1 < Len(matches) THEN matches[n + 2].start
                    ELSE Len(full_text)))

\* an entry was written for marker n of the current blob
WrittenFor(n) ==
    \E m \in 1..Len(trace) :
        /\ trace[m].unit = idx /\ trace[m].i = n /\ trace[m].accepted
        /\ trace[m].date_key \in DOMAIN chapters

\* a double-line-break join of paragraphs that are trimmed and longer than
\* one character: the lines of the text are paragraph, empty, paragraph, ...
IsParagraphJoin(text) ==
    \E ls \in {Split(text)} :
        /\ Len(ls) % 2 = 1
        /\ \A n \in 1..Len(ls) :
            IF n % 2 = 0 THEN ls[n] = ""
            ELSE Len(ls[n]) > 1 /\ Strip(ls[n]) = ls[n]

StoredWellFormed ==
    \A k \in DOMAIN chapters :
        Len(chapters[k]) > 10 /\ IsParagraphJoin(chapters[k])

\* C11, as stated: an entry is written for a marker iff its cleaned text is
\* longer than 10 characters; every stored value is longer than 10 and a
\* double-line-break join of trimmed paragraphs longer than one character;
\* a marker followed only by the line "x" stores nothing
C11_WrittenIffLong ==
    prog = "calendar" =>
        /\ \A n \in 0..(i - 1) : WrittenFor(n) <=> Len(CleanedOf(n)) > 10
        /\ StoredWellFormed
        /\ LoopDoneOn(Scenario2Blob) => chapters = EmptyStore

\* C11, amended: an entry is written for a marker iff the marker's month name
\* is in the lookup table and its cleaned text is longer than 10 characters;
\* the rest as stated
C11_WrittenIffKnownAndLong ==
    prog = "calendar" =>
        /\ \A n \in 0..(i - 1) :
            WrittenFor(n) <=>
                /\ month_to_number(matches[n + 1].month) # NoMonth
                /\ Len(CleanedOf(n)) > 10
        /\ StoredWellFormed
        /\ LoopDoneOn(Scenario2Blob) => chapters = EmptyStore

\* C11: a blob whose first and third markers were written and whose second,
\* with a text longer than 10 characters, was skipped
C11_LongTextNotWritten ==
    /\ prog = "calendar"
    /\ i = 3
    /\ WrittenFor(0) /\ ~WrittenFor(1) /\ WrittenFor(2)
    /\ Len(CleanedOf(1)) > 10
    /\ month_to_number(matches[2].month) = NoMonth

----------------------------------------------------------------------------
(* Properties of the runs of both extractors *)

\* C12, as stated: no failure of one unit or marker ends the run before the
\* last unit; a run that ends with no entry writes no file and exits with a
\* status other than 0; a run with an entry is serialized
C12_ZeroEntriesFailHard ==
    pc = "done" =>
        /\ idx \in {0, Len(items)}
        /\ DOMAIN chapters = {} => outfile = NoFile /\ exit_code # 0
        /\ DOMAIN chapters # {} => outfile = chapters

\* C12: the calendar extractor has read every unit, found no entry, written
\* no file and ended with status 0
C12_CalendarEndsWithZero ==
    /\ prog = "calendar"
    /\ pc = "done"
    /\ Len(items) # 0
    /\ idx = Len(items)
    /\ DOMAIN chapters = {}
    /\ outfile = NoFile
    /\ exit_code = 0

\* extract_chapters of extract_calendar_of_wisdom.py has returned
ExtractionOver ==
    /\ prog = "calendar"
    /\ idx = Len(items)
    /\ pc \in {"items", "save", "done"}

\* C13, as stated: at the end of a calendar extraction total_entries is the
\* number of keys of the store
C13_CountIsKeys ==
    ExtractionOver => total_entries = Cardinality(DOMAIN chapters)

\* C13: two accepted entries of 01-01: the count is 2 and the store has one
\* key
C13_DuplicateCounted ==
    /\ ExtractionOver
    /\ Len(trace) = 2
    /\ trace[1].accepted /\ trace[2].accepted
    /\ trace[1].date_key = "01-01" /\ trace[2].date_key = "01-01"
    /\ DOMAIN chapters = {"01-01"}
    /\ total_entries = 2

====
